---------------------------- MODULE Spec2Model ----------------------------
(***************************************************************************)
(* Task-management REST backend: the route handlers of                     *)
(* server/routes/tasks.js and server/routes/users.js over the two document *)
(* collections User and Task (server/models/Task.js).                      *)
(*                                                                         *)
(* Strings are sequences of one-character strings.  An ObjectId is the     *)
(* sequence of its lower-case hexadecimal digits, which is what            *)
(* ObjectId.toString() yields; a route parameter is an arbitrary string    *)
(* that the driver casts (case-insensitively) to an ObjectId or rejects.   *)
(* A value that JavaScript leaves undefined is the empty sequence for      *)
(* string- and id-valued fields and the string "undefined" for enums.      *)
(***************************************************************************)
EXTENDS Integers, Sequences, FiniteSets, TLC

VARIABLES users, tasks, created, pending, resp, served

vars == <<users, tasks, created, pending, resp, served>>

(***************************************************************************)
(* Bounds of the model.                                                    *)
(***************************************************************************)
\* number of hexadecimal digits of an ObjectId (24 in the driver)
HexLen == 2
\* number of task documents ever created (ObjectIds are never reused)
MaxTasks == 1
\* number of requests that may be between their check and their write
MaxPending == 2
\* number of requests a behaviour sends
MaxRequests == 3

(***************************************************************************)
(* Program constants (models/Task.js).                                     *)
(***************************************************************************)
TitleMax == 100
DescriptionMax == 500
TagMax == 20

Statuses == {"pending", "in-progress", "completed", "cancelled"}
Priorities == {"low", "medium", "high", "urgent"}
DefaultStatus == "pending"
DefaultPriority == "medium"

Undefined == <<>>
Undef == "undefined"

(***************************************************************************)
(* Strings.                                                                *)
(***************************************************************************)
LowerHex == {"0", "1", "2", "3", "4", "5", "6", "7", "8", "9",
             "a", "b", "c", "d", "e", "f"}
UpperHex == {"A", "B", "C", "D", "E", "F"}

ToLowerChar(c) ==
  CASE c = "A" -> "a" [] c = "B" -> "b" [] c = "C" -> "c"
    [] c = "D" -> "d" [] c = "E" -> "e" [] c = "F" -> "f"
    [] c = "T" -> "t" [] c = "X" -> "x"
    [] OTHER -> c

ToUpperChar(c) ==
  CASE c = "a" -> "A" [] c = "b" -> "B" [] c = "c" -> "C"
    [] c = "d" -> "D" [] c = "e" -> "E" [] c = "f" -> "F"
    [] c = "t" -> "T" [] c = "x" -> "X"
    [] OTHER -> c

ToLower(s) == [i \in 1..Len(s) |-> ToLowerChar(s[i])]
ToUpper(s) == [i \in 1..Len(s) |-> ToUpperChar(s[i])]

Rep(c, n) == [i \in 1..n |-> c]

\* String.prototype.trim: strip leading and trailing blanks
RECURSIVE TrimLeft(_)
TrimLeft(s) == IF Len(s) > 0 /\ s[1] = " " THEN TrimLeft(Tail(s)) ELSE s
RECURSIVE TrimRight(_)
TrimRight(s) ==
  IF Len(s) > 0 /\ s[Len(s)] = " " THEN TrimRight(SubSeq(s, 1, Len(s) - 1)) ELSE s
Trim(s) == TrimRight(TrimLeft(s))

(***************************************************************************)
(* ObjectIds.                                                              *)
(***************************************************************************)
Digit(k) == CASE k = 1 -> "1" [] k = 2 -> "2" [] k = 3 -> "3" [] k = 4 -> "4"
              [] k = 5 -> "5" [] k = 6 -> "6" [] OTHER -> "0"

UserOid(k) == [i \in 1..HexLen |-> IF i = 1 THEN "a" ELSE Digit(k)]
TaskOid(k) == [i \in 1..HexLen |-> IF i = 1 THEN "b" ELSE Digit(k)]

Admin == UserOid(1)
Ann == UserOid(2)
Bob == UserOid(3)
UserOids == {Admin, Ann, Bob}
TaskOids == {TaskOid(k) : k \in 1..MaxTasks}

CastError == <<"CastError">>

\* Mongoose's cast of a string to an ObjectId: HexLen hexadecimal digits of
\* either case, read case-insensitively; anything else is a CastError whose
\* kind is 'ObjectId'.
castObjectId(s) ==
  IF Len(s) = HexLen /\ \A i \in 1..Len(s) : s[i] \in LowerHex \cup UpperHex
  THEN ToLower(s)
  ELSE CastError

\* ObjectId.prototype.toString: the lower-case hexadecimal digits
toString(oid) == oid

\* What a client may put in the :id place of a URL
MalformedId == Rep("z", HexLen)
MissingId == Rep("9", HexLen)
ParamsOf(oids) == oids \cup {ToUpper(o) : o \in oids} \cup {MalformedId, MissingId}
TaskParams == TaskOids \cup ParamsOf({TaskOid(1)})
UserParams == UserOids \cup ParamsOf({Admin, Ann})

(***************************************************************************)
(* The Task schema (models/Task.js).                                       *)
(***************************************************************************)
None == <<>>
Some(v) == <<v>>

\* new Task({...}): the schema's defaults fill what the caller leaves out
newTask(f) ==
  [title       |-> Trim(f.title),
   description |-> Trim(f.description),
   status      |-> DefaultStatus,
   priority    |-> IF f.priority = Undef THEN DefaultPriority ELSE f.priority,
   dueDate     |-> f.dueDate,
   completedAt |-> Undef,
   tags        |-> [i \in 1..Len(f.tags) |-> Trim(f.tags[i])],
   assignedTo  |-> f.assignedTo,
   createdBy   |-> f.createdBy,
   isPublic    |-> f.isPublic,
   createdAt   |-> f.createdAt]

\* The schema's validators, run by save() on a new document: the names of
\* the paths that fail
validateTask(doc) ==
  {p \in {"title", "description", "priority", "dueDate", "tags", "createdBy"} :
     CASE p = "title"       -> Len(doc.title) = 0 \/ Len(doc.title) > TitleMax
       [] p = "description" -> Len(doc.description) > DescriptionMax
       [] p = "priority"    -> doc.priority \notin Priorities
       [] p = "dueDate"     -> ~(doc.dueDate = Undef \/ doc.dueDate = "future")
       [] p = "tags"        -> \E i \in 1..Len(doc.tags) : Len(doc.tags[i]) > TagMax
       [] p = "createdBy"   -> doc.createdBy = Undefined}

\* taskSchema.pre('save'): d is a loaded document, d.doc its fields and
\* d.modified the paths assigned a different value since it was loaded
preSave(d) ==
  IF "status" \in d.modified /\ d.doc.status = "completed" /\ d.doc.completedAt = Undef
  THEN [doc |-> [d.doc EXCEPT !.completedAt = "date"],
        modified |-> d.modified \cup {"completedAt"}]
  ELSE IF "status" \in d.modified /\ d.doc.status # "completed"
  THEN [doc |-> [d.doc EXCEPT !.completedAt = Undef],
        modified |-> IF d.doc.completedAt # Undef
                     THEN d.modified \cup {"completedAt"} ELSE d.modified]
  ELSE d

\* A document as findById returns it: nothing modified yet
load(doc) == [doc |-> doc, modified |-> {}]

\* doc.status = v: the path is marked modified when the value differs
setStatus(d, v) ==
  [doc |-> [d.doc EXCEPT !.status = v],
   modified |-> IF d.doc.status # v THEN d.modified \cup {"status"} ELSE d.modified]

\* doc.completedAt = new Date() / = undefined
setCompletedAt(d, v) ==
  [doc |-> [d.doc EXCEPT !.completedAt = v],
   modified |-> IF v = "date" \/ d.doc.completedAt # v
                THEN d.modified \cup {"completedAt"} ELSE d.modified]

setAssignedTo(d, v) ==
  [doc |-> [d.doc EXCEPT !.assignedTo = v],
   modified |-> IF d.doc.assignedTo # v THEN d.modified \cup {"assignedTo"} ELSE d.modified]

\* taskSchema.methods.markComplete, up to its save()
markComplete(d) == preSave(setCompletedAt(setStatus(d, "completed"), "date"))

\* taskSchema.methods.assignTo, up to its save()
assignTo(d, userId) == preSave(setAssignedTo(d, userId))

TaskPaths == {"title", "description", "status", "priority", "dueDate",
              "completedAt", "tags", "assignedTo", "createdBy", "isPublic"}

\* The stored document after the given paths of doc have been written over it
\* ($set of the modified paths; createdAt is never written again)
Merge(stored, doc, paths) ==
  [p \in DOMAIN stored |-> IF p \in paths THEN doc[p] ELSE stored[p]]

(***************************************************************************)
(* Requests and responses.                                                 *)
(*                                                                         *)
(* A handler is a function of the request and of the collections as it     *)
(* reads them: it answers at once, or it answers after one write.  Its     *)
(* result names the answer and the write (NoWrite when there is none).     *)
(***************************************************************************)
NoWrite == [op |-> "none"]
NoBody == [none |-> TRUE]

Answer(code, msg) == [code |-> code, msg |-> msg, write |-> NoWrite]
ThenWrite(w) == [code |-> 0, msg |-> "", write |-> w]

\* auth (middleware/auth.js): the bearer token names a stored user, who
\* becomes req.user
auth(u) == u \in DOMAIN users

\* adminAuth (middleware/auth.js): auth, and req.user.role is 'admin'
adminAuth(u) == auth(u) /\ users[u].role = "admin"

\* adminAuth answers 403 itself; the handler r runs only for an admin
adminOnly(u, r) == IF adminAuth(u) THEN r ELSE Answer(403, "Access denied. Admin only.")

\* populate(path, 'username email'): the referenced user, or null when the
\* reference is undefined or no user has that _id
Null == [null |-> TRUE]
populate(ref) ==
  IF ref \in DOMAIN users
  THEN [null |-> FALSE, _id |-> ref, username |-> users[ref].username,
        email |-> users[ref].email]
  ELSE Null

(***************************************************************************)
(* routes/tasks.js                                                         *)
(***************************************************************************)
\* parseInt(x) || dflt, for the query strings the model sends: an optional
\* "-" and the decimal digits that follow; no digit, or the value 0, gives
\* the default
DigitValue(c) ==
  CASE c = "0" -> 0 [] c = "1" -> 1 [] c = "2" -> 2 [] c = "3" -> 3 [] c = "4" -> 4
    [] c = "5" -> 5 [] c = "6" -> 6 [] c = "7" -> 7 [] c = "8" -> 8 [] c = "9" -> 9
    [] OTHER -> -1

RECURSIVE parseDigits(_, _, _)
parseDigits(x, i, acc) ==
  IF i > Len(x) \/ DigitValue(x[i]) < 0 THEN acc
  ELSE parseDigits(x, i + 1, 10 * acc + DigitValue(x[i]))

parseIntOr(x, dflt) ==
  LET neg == Len(x) > 0 /\ x[1] = "-"
      first == IF neg THEN 2 ELSE 1
      n == IF first > Len(x) \/ DigitValue(x[first]) < 0 THEN 0
           ELSE parseDigits(x, first, 0)
  IN IF n = 0 THEN dflt ELSE IF neg THEN 0 - n ELSE n

\* new RegExp(search, 'i') for the patterns the model sends: "." stands for
\* any character, "(" opens a group that is never closed (a SyntaxError),
\* every other character stands for itself in either case
regExpThrows(pattern) == \E i \in 1..Len(pattern) : pattern[i] = "("

regExpTest(pattern, text) ==
  \E off \in 0..(Len(text) - Len(pattern)) :
     \A j \in 1..Len(pattern) :
        pattern[j] = "." \/ ToLowerChar(pattern[j]) = ToLowerChar(text[off + j])

\* {$or: [{createdBy: userId}, {assignedTo: userId}, {isPublic: true}]}
ownedAssignedOrPublic(u, doc) == doc.createdBy = u \/ doc.assignedTo = u \/ doc.isPublic

\* ...options: status and priority, when the query gives them
matchesOptions(q, doc) ==
  /\ (q.status # None => doc.status = q.status[1])
  /\ (q.priority # None => doc.priority = q.priority[1])

\* {$or: [{title: re}, {description: re}, {tags: {$in: [re]}}]}
matchesSearch(pattern, doc) ==
  \/ regExpTest(pattern, doc.title)
  \/ regExpTest(pattern, doc.description)
  \/ \E i \in 1..Len(doc.tags) : regExpTest(pattern, doc.tags[i])

\* The four filters of GET /api/tasks: find and countDocuments, in the
\* search branch and in the other (Task.findByUser)
searchFind(u, q) ==
  {t \in DOMAIN tasks : /\ ownedAssignedOrPublic(u, tasks[t])
                        /\ matchesSearch(q.search, tasks[t])
                        /\ matchesOptions(q, tasks[t])}

searchCount(u, q) ==
  {t \in DOMAIN tasks : /\ ownedAssignedOrPublic(u, tasks[t])
                        /\ matchesSearch(q.search, tasks[t])
                        /\ matchesOptions(q, tasks[t])}

findByUser(u, q) ==
  {t \in DOMAIN tasks : ownedAssignedOrPublic(u, tasks[t]) /\ matchesOptions(q, tasks[t])}

plainCount(u, q) ==
  {t \in DOMAIN tasks : ownedAssignedOrPublic(u, tasks[t]) /\ matchesOptions(q, tasks[t])}

\* sort({createdAt: -1}): the ids of the set, newest first
RECURSIVE newestFirst(_)
newestFirst(ids) ==
  IF ids = {} THEN <<>>
  ELSE LET top == CHOOSE t \in ids : \A o \in ids : tasks[o].createdAt <= tasks[t].createdAt
       IN <<top>> \o newestFirst(ids \ {top})

\* skip(n).limit(m) of a sorted result; a negative limit is read as its size
skipLimit(sorted, skip, limit) ==
  LET m == IF limit < 0 THEN 0 - limit ELSE limit
      last == IF skip + m < Len(sorted) THEN skip + m ELSE Len(sorted)
  IN SubSeq(sorted, skip + 1, last)

\* Math.ceil(total / limit), limit # 0
ceilDiv(total, limit) ==
  IF limit > 0 THEN (total + limit - 1) \div limit
  ELSE 0 - (total \div (0 - limit))

\* GET /api/tasks
listTasks(u, q) ==
  LET page == parseIntOr(q.page, 1)
      limit == parseIntOr(q.limit, 10)
      searching == Len(q.search) > 0
  IN
  IF searching /\ regExpThrows(q.search)
  THEN [code |-> 500, msg |-> "Server error", tasks |-> <<>>, total |-> 0,
        page |-> page, limit |-> limit, pages |-> 0]
  ELSE IF (page - 1) * limit < 0
  THEN [code |-> 500, msg |-> "Server error", tasks |-> <<>>, total |-> 0,
        page |-> page, limit |-> limit, pages |-> 0]
  ELSE LET found == IF searching THEN searchFind(u, q) ELSE findByUser(u, q)
           total == Cardinality(IF searching THEN searchCount(u, q) ELSE plainCount(u, q))
       IN [code |-> 200, msg |-> "tasks",
           tasks |-> skipLimit(newestFirst(found), (page - 1) * limit, limit),
           total |-> total, page |-> page, limit |-> limit,
           pages |-> ceilDiv(total, limit)]

\* GET /api/tasks/public
listPublicTasks(q) ==
  LET page == parseIntOr(q.page, 1)
      limit == parseIntOr(q.limit, 10)
      found == {t \in DOMAIN tasks : tasks[t].isPublic}
  IN
  IF (page - 1) * limit < 0
  THEN [code |-> 500, msg |-> "Server error", tasks |-> <<>>, total |-> 0,
        page |-> page, limit |-> limit, pages |-> 0]
  ELSE [code |-> 200, msg |-> "tasks",
        tasks |-> skipLimit(newestFirst(found), (page - 1) * limit, limit),
        total |-> Cardinality(found), page |-> page, limit |-> limit,
        pages |-> ceilDiv(Cardinality(found), limit)]

\* GET /api/tasks/:id -- the access check on the populated document; a
\* TypeError (reading _id of a null creator) is caught and answered 500
getTaskAccess(u, task) ==
  ~ (/\ ~task.isPublic
     /\ toString(task.createdBy) # toString(u)
     /\ (task.assignedTo = Undefined \/ populate(task.assignedTo) = Null
         \/ toString(task.assignedTo) # toString(u)))

getTask(u, s) ==
  LET id == castObjectId(s) IN
  IF id = CastError THEN Answer(400, "Invalid task ID")
  ELSE IF id \notin DOMAIN tasks THEN Answer(404, "Task not found")
  ELSE LET task == tasks[id] IN
       IF ~task.isPublic /\ populate(task.createdBy) = Null
       THEN Answer(500, "Server error")
       ELSE IF ~getTaskAccess(u, task) THEN Answer(403, "Access denied")
       ELSE Answer(200, "task")

\* POST /api/tasks -- express-validator's chain on the body
createValidationErrors(b) ==
  {p \in {"title", "description", "priority", "dueDate", "tags", "isPublic"} :
     CASE p = "title"       -> Len(Trim(b.title)) < 1 \/ Len(Trim(b.title)) > TitleMax
       [] p = "description" -> Len(Trim(b.description)) > DescriptionMax
       [] p = "priority"    -> b.priority # Undef /\ b.priority \notin Priorities
       [] p = "dueDate"     -> b.dueDate = "notadate"
       [] p = "tags"        -> ~b.tagsIsArray
       [] p = "isPublic"    -> b.isPublic \notin {Undef, "true", "false"}}

\* createTask building the document from the whole body, new Task({...req.body})
createTaskWholeBody(u, b) ==
  IF createValidationErrors(b) # {} THEN Answer(400, "Validation failed")
  ELSE LET doc == [newTask([title |-> b.title, description |-> b.description,
                            priority |-> b.priority, dueDate |-> b.dueDate,
                            tags |-> b.tags, assignedTo |-> b.assignedTo,
                            isPublic |-> (b.isPublic = "true"),
                            createdBy |-> u, createdAt |-> created + 1])
                   EXCEPT !.status = IF b.status = Undef THEN DefaultStatus ELSE b.status]
       IN IF validateTask(doc) # {} THEN Answer(500, "Server error")
          ELSE ThenWrite([op |-> "taskInsert", id |-> TaskOid(created + 1),
                          doc |-> doc, paths |-> TaskPaths,
                          okCode |-> 201, okMsg |-> "Task created successfully"])

createTask(u, b) ==
  IF createValidationErrors(b) # {} THEN Answer(400, "Validation failed")
  ELSE LET doc == newTask([title |-> b.title, description |-> b.description,
                           priority |-> b.priority, dueDate |-> b.dueDate,
                           tags |-> b.tags, assignedTo |-> b.assignedTo,
                           isPublic |-> (b.isPublic = "true"),
                           createdBy |-> u, createdAt |-> created + 1])
       IN IF validateTask(doc) # {} THEN Answer(500, "Server error")
          ELSE ThenWrite([op |-> "taskInsert", id |-> TaskOid(created + 1),
                          doc |-> doc, paths |-> TaskPaths,
                          okCode |-> 201, okMsg |-> "Task created successfully"])

\* PUT /api/tasks/:id
putValidationErrors(b) ==
  {p \in {"title", "status", "priority", "isPublic"} :
     CASE p = "title"    -> b.title # None
                            /\ (Len(Trim(b.title[1])) < 1 \/ Len(Trim(b.title[1])) > TitleMax)
       [] p = "status"   -> b.status # Undef /\ b.status \notin Statuses
       [] p = "priority" -> b.priority # Undef /\ b.priority \notin Priorities
       [] p = "isPublic" -> b.isPublic \notin {Undef, "true", "false"}}

\* The update document handed to findByIdAndUpdate: the body's own fields
\* but createdBy (deleted by the handler), and the fields of a $set operator
\* in the body, which Mongoose merges with them
putPaths(b) ==
  {p \in {"title", "status", "priority", "isPublic", "assignedTo", "completedAt", "createdBy"} :
     CASE p = "title"       -> b.title # None
       [] p = "status"      -> b.status # Undef
       [] p = "priority"    -> b.priority # Undef
       [] p = "isPublic"    -> b.isPublic # Undef
       [] p = "assignedTo"  -> b.assignedTo # None
       [] p = "completedAt" -> b.completedAt # Undef
       [] p = "createdBy"   -> b.dollarSetCreatedBy # None}

putValues(b, stored) ==
  [stored EXCEPT
     !.title = IF b.title # None THEN Trim(b.title[1]) ELSE @,
     !.status = IF b.status # Undef THEN b.status ELSE @,
     !.priority = IF b.priority # Undef THEN b.priority ELSE @,
     !.isPublic = IF b.isPublic # Undef THEN (b.isPublic = "true") ELSE @,
     !.assignedTo = IF b.assignedTo # None THEN b.assignedTo[1] ELSE @,
     !.completedAt = IF b.completedAt # Undef THEN b.completedAt ELSE @,
     !.createdBy = IF b.dollarSetCreatedBy # None THEN b.dollarSetCreatedBy[1] ELSE @]

putTaskAllowed(u, task) == toString(task.createdBy) = toString(u)

putTask(u, s, b) ==
  IF putValidationErrors(b) # {} THEN Answer(400, "Validation failed")
  ELSE LET id == castObjectId(s) IN
  IF id = CastError THEN Answer(400, "Invalid task ID")
  ELSE IF id \notin DOMAIN tasks THEN Answer(404, "Task not found")
  ELSE IF ~putTaskAllowed(u, tasks[id]) THEN Answer(403, "Access denied")
  ELSE ThenWrite([op |-> "taskUpdate", id |-> id, doc |-> putValues(b, tasks[id]),
                  paths |-> putPaths(b),
                  okCode |-> 200, okMsg |-> "Task updated successfully"])

\* PATCH /api/tasks/:id/status
\* the check without its comparison of the assignee with the requester
patchAllowedAnyAssignee(u, task) ==
  ~ (toString(task.createdBy) # toString(u) /\ task.assignedTo = Undefined)

patchAllowed(u, task) ==
  ~ (/\ toString(task.createdBy) # toString(u)
     /\ (task.assignedTo = Undefined \/ toString(task.assignedTo) # toString(u)))

patchTaskStatus(u, s, b) ==
  IF b.status \notin Statuses THEN Answer(400, "Validation failed")
  ELSE LET id == castObjectId(s) IN
  IF id = CastError THEN Answer(400, "Invalid task ID")
  ELSE IF id \notin DOMAIN tasks THEN Answer(404, "Task not found")
  ELSE IF ~patchAllowed(u, tasks[id]) THEN Answer(403, "Access denied")
  ELSE LET d == preSave(setCompletedAt(setStatus(load(tasks[id]), b.status),
                                       IF b.status = "completed" THEN "date" ELSE Undef))
       IN ThenWrite([op |-> "taskSave", id |-> id, doc |-> d.doc, paths |-> d.modified,
                     okCode |-> 200, okMsg |-> "Task status updated successfully"])

\* DELETE /api/tasks/:id
deleteTaskAllowed(u, task) == toString(task.createdBy) = toString(u)

\* deleteTask without its `if (!task)` answer
deleteTaskUnchecked(u, s) ==
  LET id == castObjectId(s) IN
  IF id = CastError THEN Answer(400, "Invalid task ID")
  ELSE IF id \in DOMAIN tasks /\ ~deleteTaskAllowed(u, tasks[id])
  THEN Answer(403, "Access denied")
  ELSE ThenWrite([op |-> "taskDelete", id |-> id, doc |-> NoBody, paths |-> {},
                  okCode |-> 200, okMsg |-> "Task deleted successfully"])

deleteTask(u, s) ==
  LET id == castObjectId(s) IN
  IF id = CastError THEN Answer(400, "Invalid task ID")
  ELSE IF id \notin DOMAIN tasks THEN Answer(404, "Task not found")
  ELSE IF ~deleteTaskAllowed(u, tasks[id]) THEN Answer(403, "Access denied")
  ELSE ThenWrite([op |-> "taskDelete", id |-> id, doc |-> NoBody, paths |-> {},
                  okCode |-> 200, okMsg |-> "Task deleted successfully"])

(***************************************************************************)
(* routes/users.js                                                         *)
(***************************************************************************)
UsernameMin == 3
UsernameMax == 30

\* isEmail, as far as the model's addresses go: one "@" with text around it
isEmail(e) ==
  \E i \in 2..(Len(e) - 1) : e[i] = "@" /\ \A j \in 1..Len(e) : (e[j] = "@") => j = i

\* normalizeEmail: the address in lower case
normalizeEmail(e) == ToLower(e)

\* GET /api/users/:id -- the parameter is compared as the string it is
\* the handler without its access check
getUserAllowedAnyone(u, s) == TRUE

getUserAllowed(u, s) == ~ (users[u].role # "admin" /\ toString(u) # s)

getUser(u, s) ==
  LET id == castObjectId(s) IN
  IF id = CastError THEN Answer(400, "Invalid user ID")
  ELSE IF id \notin DOMAIN users THEN Answer(404, "User not found")
  ELSE IF ~getUserAllowed(u, s) THEN Answer(403, "Access denied")
  ELSE Answer(200, "user")

\* PUT /api/users/:id
putUserValidationErrors(b) ==
  {p \in {"username", "email", "role"} :
     CASE p = "username" -> b.username # None
                            /\ (Len(b.username[1]) < UsernameMin \/ Len(b.username[1]) > UsernameMax)
       [] p = "email"    -> b.email # None /\ ~isEmail(b.email[1])
       [] p = "role"     -> b.role # Undef /\ b.role \notin {"user", "admin"}}

\* User.findOne({$or: [{email}, {username}], _id: {$ne: id}})
existingUser(username, email, id) ==
  {x \in DOMAIN users :
     /\ x # id
     /\ \/ (email # None /\ users[x].email = email[1])
        \/ (username # None /\ users[x].username = username[1])}

putUserPaths(b) ==
  {p \in {"username", "email", "role"} :
     CASE p = "username" -> b.username # None
       [] p = "email"    -> b.email # None
       [] p = "role"     -> b.role # Undef}

putUserValues(b, id) ==
  [username |-> IF b.username # None THEN b.username[1] ELSE Undefined,
   email    |-> IF b.email # None THEN normalizeEmail(b.email[1]) ELSE Undefined,
   role     |-> b.role]

putUser(u, s, b) ==
  IF putUserValidationErrors(b) # {} THEN Answer(400, "Validation failed")
  ELSE LET id == castObjectId(s)
           email == IF b.email # None THEN Some(normalizeEmail(b.email[1])) ELSE None
       IN
  IF id = CastError THEN Answer(400, "Invalid user ID")
  ELSE IF (b.username # None \/ b.email # None) /\ existingUser(b.username, email, id) # {}
  THEN Answer(400, "Username or email already exists")
  ELSE ThenWrite([op |-> "userUpdate", id |-> id, doc |-> putUserValues(b, id),
                  paths |-> putUserPaths(b),
                  okCode |-> 200, okMsg |-> "User updated successfully"])

\* DELETE /api/users/:id -- the parameter is compared as the string it is
isOwnAccount(u, s) == toString(u) = s

deleteUser(u, s) ==
  LET id == castObjectId(s) IN
  IF id = CastError THEN Answer(400, "Invalid user ID")
  ELSE IF id \notin DOMAIN users THEN Answer(404, "User not found")
  ELSE IF isOwnAccount(u, s) THEN Answer(400, "Cannot delete your own account")
  ELSE ThenWrite([op |-> "userDelete", id |-> id, doc |-> NoBody, paths |-> {},
                  okCode |-> 200, okMsg |-> "User deleted successfully"])

\* GET /api/users and GET /api/users/search/:query
listUsers(u) == Answer(200, "users")

searchUsers(u, q) == Answer(200, "users")

(***************************************************************************)
(* The writes.  Applied to the collections as they are when the write      *)
(* arrives: a save() or update of a document that is gone writes nothing.  *)
(***************************************************************************)
\* The unique indexes of the User collection (username, email)
duplicateKey(id, doc, paths) ==
  \E x \in DOMAIN users :
     /\ x # id
     /\ \/ ("username" \in paths /\ users[x].username = doc.username)
        \/ ("email" \in paths /\ users[x].email = doc.email)

\* The answer that follows write w
written(w) ==
  CASE w.op = "taskInsert" -> [code |-> w.okCode, msg |-> w.okMsg]
    [] w.op = "taskUpdate" -> [code |-> w.okCode, msg |-> w.okMsg]
    [] w.op = "taskSave"   -> IF w.id \in DOMAIN tasks \/ w.paths = {}
                              THEN [code |-> w.okCode, msg |-> w.okMsg]
                              ELSE [code |-> 500, msg |-> "Server error"]
    [] w.op = "taskDelete" -> [code |-> w.okCode, msg |-> w.okMsg]
    [] w.op = "userUpdate" -> IF w.id \notin DOMAIN users
                              THEN [code |-> 404, msg |-> "User not found"]
                              ELSE IF duplicateKey(w.id, w.doc, w.paths)
                              THEN [code |-> 500, msg |-> "Server error"]
                              ELSE [code |-> w.okCode, msg |-> w.okMsg]
    [] w.op = "userInsert" -> IF duplicateKey(w.id, w.doc, {"username", "email"})
                              THEN [code |-> 500, msg |-> "Server error"]
                              ELSE [code |-> w.okCode, msg |-> w.okMsg]
    [] w.op = "userDelete" -> [code |-> w.okCode, msg |-> w.okMsg]

tasksAfter(w) ==
  CASE w.op = "taskInsert" -> [t \in DOMAIN tasks \cup {w.id} |->
                                 IF t = w.id THEN w.doc ELSE tasks[t]]
    [] w.op \in {"taskUpdate", "taskSave"} ->
         IF w.id \in DOMAIN tasks
         THEN [tasks EXCEPT ![w.id] = Merge(@, w.doc, w.paths)]
         ELSE tasks
    [] w.op = "taskDelete" -> [t \in DOMAIN tasks \ {w.id} |-> tasks[t]]
    [] OTHER -> tasks

usersAfter(w) ==
  CASE w.op = "userUpdate" ->
         IF w.id \in DOMAIN users /\ ~duplicateKey(w.id, w.doc, w.paths)
         THEN [users EXCEPT ![w.id] = Merge(@, w.doc, w.paths)]
         ELSE users
    [] w.op = "userInsert" ->
         IF ~duplicateKey(w.id, w.doc, {"username", "email"})
         THEN [x \in DOMAIN users \cup {w.id} |-> IF x = w.id THEN w.doc ELSE users[x]]
         ELSE users
    [] w.op = "userDelete" -> [x \in DOMAIN users \ {w.id} |-> users[x]]
    [] OTHER -> users

(***************************************************************************)
(* The requests the model sends.                                           *)
(***************************************************************************)
CreateBody(title, assignedTo, isPublic) ==
  [title |-> title, description |-> <<>>, priority |-> Undef, dueDate |-> Undef,
   tags |-> <<>>, tagsIsArray |-> TRUE, assignedTo |-> assignedTo,
   isPublic |-> isPublic, status |-> Undef]

CreateBodies ==
  {CreateBody(<<"t">>, a, p) : a \in {Undefined, Bob}, p \in {Undef, "true"}}

EmptyPut ==
  [title |-> None, status |-> Undef, priority |-> Undef, isPublic |-> Undef,
   assignedTo |-> None, completedAt |-> Undef, createdBy |-> None,
   dollarSetCreatedBy |-> None]

PutBodies ==
  {[EmptyPut EXCEPT !.status = v] : v \in {"completed", "pending", "bogus"}}
  \cup {[EmptyPut EXCEPT !.createdBy = Some(Bob)],
        [EmptyPut EXCEPT !.dollarSetCreatedBy = Some(Bob)]}

PatchBodies == {[status |-> v] : v \in {"completed", "in-progress", "bogus"}}

EmptyUserPut == [username |-> None, email |-> None, role |-> Undef]

UserPutBodies ==
  {[EmptyUserPut EXCEPT !.role = v] : v \in {"admin", "bogus"}}
  \cup {[EmptyUserPut EXCEPT !.username = Some(<<"b", "o", "b">>)]}

(***************************************************************************)
(* State.                                                                  *)
(*   users, tasks  the two collections, keyed by _id                       *)
(*   created       the number of Task documents constructed so far         *)
(*   pending       the requests between their check and their write        *)
(*   resp          the last response sent, with the request it answers     *)
(*   served        the number of requests sent so far                      *)
(***************************************************************************)
Response(kind, u, s, b, code, msg) ==
  [kind |-> kind, user |-> u, id |-> s, body |-> b, code |-> code, msg |-> msg]

InitUsers ==
  [x \in UserOids |->
     CASE x = Admin -> [username |-> <<"a", "d", "m">>, email |-> <<"r", "@", "x">>,
                        role |-> "admin"]
       [] x = Ann   -> [username |-> <<"a", "n", "n">>, email |-> <<"a", "@", "x">>,
                        role |-> "user"]
       [] OTHER     -> [username |-> <<"b", "o", "b">>, email |-> <<"b", "@", "x">>,
                        role |-> "user"]]

Init ==
  /\ users = InitUsers
  /\ tasks = << >>
  /\ created = 0
  /\ pending = {}
  /\ resp = Response("none", Undefined, Undefined, NoBody, 0, "")
  /\ served = 0

\* A request handled to its end: the handler's check and, if it comes to
\* that, its write
Serve(kind, u, s, b, r) ==
  /\ served < MaxRequests
  /\ served' = served + 1
  /\ IF r.write.op = "none"
     THEN /\ resp' = Response(kind, u, s, b, r.code, r.msg)
          /\ UNCHANGED <<users, tasks, created>>
     ELSE /\ resp' = Response(kind, u, s, b, written(r.write).code, written(r.write).msg)
          /\ tasks' = tasksAfter(r.write)
          /\ users' = usersAfter(r.write)
          /\ created' = IF r.write.op = "taskInsert" THEN created + 1 ELSE created
  /\ UNCHANGED pending

GetTask(u, s) == auth(u) /\ Serve("getTask", u, s, NoBody, getTask(u, s))

CreateTask(u, b) ==
  auth(u) /\ created < MaxTasks /\ Serve("createTask", u, Undefined, b, createTask(u, b))

PutTask(u, s, b) == auth(u) /\ Serve("putTask", u, s, NoBody, putTask(u, s, b))

PatchTaskStatus(u, s, b) ==
  auth(u) /\ Serve("patchStatus", u, s, NoBody, patchTaskStatus(u, s, b))

DeleteTask(u, s) == auth(u) /\ Serve("deleteTask", u, s, NoBody, deleteTask(u, s))

\* The model's two instance methods, called on a stored task
MarkComplete(t) ==
  /\ t \in DOMAIN tasks
  /\ LET d == markComplete(load(tasks[t])) IN
     Serve("markComplete", Undefined, t, NoBody,
           ThenWrite([op |-> "taskSave", id |-> t, doc |-> d.doc, paths |-> d.modified,
                      okCode |-> 200, okMsg |-> "saved"]))

AssignTo(t, userId) ==
  /\ t \in DOMAIN tasks
  /\ LET d == assignTo(load(tasks[t]), userId) IN
     Serve("assignTo", Undefined, t, NoBody,
           ThenWrite([op |-> "taskSave", id |-> t, doc |-> d.doc, paths |-> d.modified,
                      okCode |-> 200, okMsg |-> "saved"]))

GetUser(u, s) == auth(u) /\ Serve("getUser", u, s, NoBody, getUser(u, s))

PutUser(u, s, b) == auth(u) /\ Serve("putUser", u, s, NoBody, adminOnly(u, putUser(u, s, b)))

DeleteUser(u, s) == auth(u) /\ Serve("deleteUser", u, s, NoBody, adminOnly(u, deleteUser(u, s)))

ListUsers(u) == auth(u) /\ Serve("listUsers", u, Undefined, NoBody, adminOnly(u, listUsers(u)))

SearchUsers(u, q) ==
  auth(u) /\ Serve("searchUsers", u, q, NoBody, adminOnly(u, searchUsers(u, q)))

Next ==
  \/ \E u \in UserOids, s \in TaskParams : GetTask(u, s)
  \/ \E u \in {Ann, Bob}, b \in CreateBodies : CreateTask(u, b)
  \/ \E u \in UserOids, s \in TaskParams, b \in PutBodies : PutTask(u, s, b)
  \/ \E u \in UserOids, s \in TaskParams, b \in PatchBodies : PatchTaskStatus(u, s, b)
  \/ \E u \in UserOids, s \in TaskParams : DeleteTask(u, s)
  \/ \E t \in TaskOids : MarkComplete(t)
  \/ \E t \in TaskOids, x \in {Ann, Bob} : AssignTo(t, x)
  \/ \E u \in {Admin, Ann}, s \in UserParams : GetUser(u, s)
  \/ \E u \in {Admin, Ann}, s \in UserParams, b \in UserPutBodies : PutUser(u, s, b)
  \/ \E u \in {Admin, Ann}, s \in UserParams : DeleteUser(u, s)
  \/ \E u \in {Admin, Ann} : ListUsers(u)
  \/ \E u \in {Admin, Ann} : SearchUsers(u, <<"a">>)

Spec == Init /\ [][Next]_vars

(***************************************************************************)
(* Properties.                                                             *)
(***************************************************************************)
TaskRead(r) == castObjectId(r.id)

\* C1: a stored task has a completion timestamp iff its status is
\* `completed`.
C1_CompletedAtIffCompleted ==
  \A t \in DOMAIN tasks :
     (tasks[t].completedAt # Undef) <=> (tasks[t].status = "completed")

\* C2: GET /api/tasks/:id on an existing task answers 200 when the task is
\* public or the requester is its creator or its assignee, and 403 in every
\* other case.
C2_GetTaskVisibility ==
  (resp.kind = "getTask" /\ TaskRead(resp) \in DOMAIN tasks) =>
     LET task == tasks[TaskRead(resp)] IN
     resp.code = IF task.isPublic \/ task.createdBy = resp.user
                     \/ task.assignedTo = resp.user
                  THEN 200 ELSE 403

\* C3: a request changes or deletes a task only under the authorization
\* matrix, judged on the task as the handler read it: PUT and DELETE only
\* for its creator, PATCH .../status only for its creator or assignee and
\* then touching nothing but status and completedAt; any other requester of
\* a well-formed request on an existing task is answered 403, and the
\* collection is left as it was.
C3_Mutated(t) == t \notin DOMAIN tasks' \/ tasks'[t] # tasks[t]

C3_Step ==
  LET r == resp'
      id == castObjectId(r.id)
  IN
  /\ \A t \in DOMAIN tasks :
       (C3_Mutated(t) /\ r.kind \notin {"markComplete", "assignTo"}) =>
          /\ id = t
          /\ r.code = 200
          /\ \/ r.kind \in {"putTask", "deleteTask"} /\ r.user = tasks[t].createdBy
             \/ /\ r.kind = "patchStatus"
                /\ r.user \in {tasks[t].createdBy, tasks[t].assignedTo}
                /\ t \in DOMAIN tasks'
                /\ \A p \in DOMAIN tasks[t] \ {"status", "completedAt"} :
                      tasks'[t][p] = tasks[t][p]
  /\ (/\ r.kind \in {"putTask", "deleteTask", "patchStatus"}
      /\ id \in DOMAIN tasks
      /\ r.msg # "Validation failed"
      /\ r.user # tasks[id].createdBy
      /\ (r.kind = "patchStatus" => r.user # tasks[id].assignedTo))
     => (r.code = 403 /\ tasks' = tasks)

C4_Step ==
  \A t \in DOMAIN tasks' :
     IF t \in DOMAIN tasks THEN tasks'[t].createdBy = tasks[t].createdBy
     ELSE tasks'[t].createdBy = resp'.user

C4_CreatorImmutable == [][C4_Step]_vars

\* C7: list, update, delete and search users act only for an admin; GET
\* /api/users/:id returns a profile only to an admin or to the user :id
\* names, and answers 403 to anyone else who asks for an existing user.
C7_Step ==
  LET r == resp'
      id == castObjectId(r.id)
  IN
  /\ (r.kind \in {"listUsers", "putUser", "deleteUser", "searchUsers"}
      /\ users[r.user].role # "admin")
     => (r.code = 403 /\ users' = users /\ tasks' = tasks)
  /\ users' # users => r.kind \in {"putUser", "deleteUser"}
  /\ r.kind = "getUser" =>
       /\ r.code = 200 => (users[r.user].role = "admin" \/ id = r.user)
       /\ (id \in DOMAIN users /\ users[r.user].role # "admin" /\ id # r.user)
          => r.code = 403

C7_AdminOnly == [][C7_Step]_vars

C7_Witness ==
  /\ resp.kind = "getUser" /\ resp.code = 403
  /\ resp.user \in DOMAIN users /\ users[resp.user].role = "user"
  /\ castObjectId(resp.id) \in DOMAIN users

\* C8: DELETE /api/users/:id naming the requesting admin's own account is
\* answered 400 and removes nobody.
C8_NoSelfDelete ==
  (resp.kind = "deleteUser" /\ castObjectId(resp.id) = resp.user) =>
     (resp.code = 400 /\ resp.user \in DOMAIN users)

\* C9 as claimed: a request naming a task or user by an identifier that is
\* missing from the collection or malformed is answered 404 and changes no
\* stored document.
IdKinds == {"getTask", "putTask", "patchStatus", "deleteTask",
            "getUser", "putUser", "deleteUser"}

Malformed(r) == castObjectId(r.id) = CastError

\* no document of the route's collection has the identifier (before the step)
Missing(r) ==
  /\ ~Malformed(r)
  /\ IF r.kind \in {"getUser", "putUser", "deleteUser"}
     THEN castObjectId(r.id) \notin DOMAIN users
     ELSE castObjectId(r.id) \notin DOMAIN tasks

C9_OriginalStep ==
  (resp'.kind \in IdKinds /\ (Malformed(resp') \/ Missing(resp')))
     => (resp'.code = 404 /\ users' = users /\ tasks' = tasks)

C9_MissingOrMalformedIs404 == [][C9_OriginalStep]_vars

\* C9 as amended: a missing identifier is answered 404 and a malformed one
\* 400 'Invalid task ID' / 'Invalid user ID', unless the request is refused
\* before the lookup (body validation, the admin check, a username or email
\* held by another user); no stored document changes.
RefusedEarlier(r) ==
  r.msg \in {"Validation failed", "Access denied. Admin only.",
             "Username or email already exists"}

C9_AmendedStep ==
  LET r == resp' IN
  (r.kind \in IdKinds /\ (Malformed(r) \/ Missing(r))) =>
     /\ users' = users /\ tasks' = tasks
     /\ \/ RefusedEarlier(r) /\ r.code \in {400, 403}
        \/ Missing(r) /\ r.code = 404
        \/ Malformed(r) /\ r.code = 400
           /\ r.msg = IF r.kind \in {"getUser", "putUser", "deleteUser"}
                      THEN "Invalid user ID" ELSE "Invalid task ID"

C9_Missing404Malformed400 == [][C9_AmendedStep]_vars

C9_Witness ==
  /\ resp.kind = "deleteTask" /\ resp.id = MalformedId
  /\ resp.code = 400 /\ resp.msg = "Invalid task ID"

(***************************************************************************)
(* Task creation on its own: POST /api/tasks over bodies that meet or      *)
(* break each field constraint.                                            *)
(***************************************************************************)
WideCreateBodies ==
  {[title |-> t, description |-> d, priority |-> p, dueDate |-> due,
    tags |-> g, tagsIsArray |-> arr, assignedTo |-> Undefined,
    isPublic |-> Undef, status |-> st] :
     t \in {<<>>, <<" ", "t", " ">>, Rep("x", TitleMax), Rep("x", TitleMax + 1)},
     d \in {<<>>, Rep("d", DescriptionMax + 1)},
     p \in {Undef, "high", "bogus"},
     due \in {Undef, "notadate", "past", "future"},
     g \in {<<>>, <<Rep("g", TagMax)>>, <<Rep("g", TagMax + 1)>>},
     arr \in BOOLEAN,
     st \in {Undef}}

NextCreate == \E b \in WideCreateBodies : CreateTask(Ann, b)

SpecCreate == Init /\ [][NextCreate]_vars

\* C10: a create request that breaks a field constraint is answered 400
\* (never 500) and stores no task.
BreaksConstraint(b) ==
  \/ Len(Trim(b.title)) = 0 \/ Len(Trim(b.title)) > TitleMax
  \/ Len(Trim(b.description)) > DescriptionMax
  \/ (b.priority # Undef /\ b.priority \notin Priorities)
  \/ b.dueDate \in {"past", "notadate"}
  \/ \E i \in 1..Len(b.tags) : Len(Trim(b.tags[i])) > TagMax

C10_Step ==
  (resp'.kind = "createTask" /\ BreaksConstraint(resp'.body))
     => (resp'.code = 400 /\ tasks' = tasks)

C10_ConstraintViolationIs400 == [][C10_Step]_vars

(***************************************************************************)
(* Listing on its own: GET /api/tasks over a stored collection.            *)
(***************************************************************************)
\* number of tasks in the listed collection
MaxListed == 2

ListedDocs ==
  {[title |-> ti, description |-> <<>>,
    status |-> IF ti = <<"X">> THEN "completed" ELSE "pending",
    priority |-> IF ti = <<"X">> THEN "high" ELSE "medium",
    dueDate |-> Undef,
    completedAt |-> IF ti = <<"X">> THEN "date" ELSE Undef,
    tags |-> IF ti = <<"X">> THEN <<<<"B">>>> ELSE <<>>,
    assignedTo |-> a, createdBy |-> Ann, isPublic |-> pub, createdAt |-> 0] :
     ti \in {<<"a", "b">>, <<"X">>},
     a \in {Undefined, Bob}, pub \in BOOLEAN}

ListQueries ==
  {[page |-> pg, limit |-> lm, status |-> st, priority |-> pr, search |-> se] :
     pg \in {<<>>}, lm \in {<<>>, <<"1">>},
     st \in {None, Some("completed")}, pr \in {None, Some("high")},
     se \in {<<>>, <<"B">>, <<".">>, <<"(">>}}

InitList ==
  /\ users = InitUsers
  /\ \E n \in 1..MaxListed :
       \E f \in [1..n -> ListedDocs] :
          tasks = [t \in {TaskOid(k) : k \in 1..n} |->
                     LET k == CHOOSE k \in 1..n : TaskOid(k) = t
                     IN [f[k] EXCEPT !.createdAt = k]]
  /\ created = 0
  /\ pending = {}
  /\ resp = Response("none", Undefined, Undefined, NoBody, 0, "")
  /\ served = 0

ListTasks(u, q) ==
  /\ auth(u)
  /\ served < MaxRequests
  /\ served' = served + 1
  /\ LET r == listTasks(u, q) IN
     resp' = Response("listTasks", u, Undefined, [query |-> q, result |-> r], r.code, r.msg)
  /\ UNCHANGED <<users, tasks, created, pending>>

NextList == \E u \in {Ann, Bob}, q \in ListQueries : ListTasks(u, q)

SpecList == InitList /\ [][NextList]_vars

\* C6: GET /api/tasks returns, newest first, exactly the tasks the requester
\* created, is assigned or that are public and that match every filter
\* given (status and priority equal, the search term contained, in either
\* case, in the title, the description or a tag); total counts that set.
Contains(text, term) ==
  \E off \in 0..(Len(text) - Len(term)) :
     \A j \in 1..Len(term) : ToLowerChar(term[j]) = ToLowerChar(text[off + j])

C6_Expected(u, q) ==
  {t \in DOMAIN tasks :
     /\ tasks[t].createdBy = u \/ tasks[t].assignedTo = u \/ tasks[t].isPublic
     /\ q.status # None => tasks[t].status = q.status[1]
     /\ q.priority # None => tasks[t].priority = q.priority[1]
     /\ Len(q.search) > 0 =>
          \/ Contains(tasks[t].title, q.search)
          \/ Contains(tasks[t].description, q.search)
          \/ \E i \in 1..Len(tasks[t].tags) : Contains(tasks[t].tags[i], q.search)}

C6_ListIsExactlyTheMatchingSet ==
  resp.kind = "listTasks" =>
     LET q == resp.body.query
         r == resp.body.result
         want == C6_Expected(resp.user, q)
     IN /\ resp.code = 200
        /\ \A i \in 1..Len(r.tasks) : r.tasks[i] \in want
        /\ r.total = Cardinality(want)
        /\ \A i, j \in 1..Len(r.tasks) :
              i < j => tasks[r.tasks[i]].createdAt > tasks[r.tasks[j]].createdAt
        /\ Len(r.tasks) = IF r.limit < Cardinality(want) THEN r.limit
                          ELSE Cardinality(want)

(***************************************************************************)
(* Concurrent user writes.  A handler awaits the database twice: once for  *)
(* its findOne check, once for its write; other requests run in between.   *)
(* Begin* is a handler up to its check, Commit is its write and response.  *)
(***************************************************************************)
Zed == <<"z", "e", "d">>
ZedMail == <<"z", "@", "x">>
NewUser == UserOid(4)

\* POST /api/auth/register (routes/auth.js): a user with that username or
\* email exists -> 400 '... already exists', else the user is saved
register(b) ==
  IF existingUser(b.username, b.email, NewUser) # {}
  THEN Answer(400, "already exists")
  ELSE ThenWrite([op |-> "userInsert", id |-> NewUser,
                  doc |-> [username |-> b.username[1], email |-> b.email[1],
                           role |-> "user"],
                  paths |-> {"username", "email"},
                  okCode |-> 201, okMsg |-> "User registered successfully"])

\* PUT /api/auth/me (routes/auth.js): the same check, on the requester's own
\* document
updateSelf(u, b) ==
  IF existingUser(b.username, b.email, u) # {}
  THEN Answer(400, "already exists")
  ELSE ThenWrite([op |-> "userUpdate", id |-> u, doc |-> putUserValues(b, u),
                  paths |-> putUserPaths(b),
                  okCode |-> 200, okMsg |-> "Profile updated successfully"])

RaceBodies ==
  {[EmptyUserPut EXCEPT !.username = Some(n)] : n \in {Zed, <<"b", "o", "b">>}}

RegisterBodies == {[EmptyUserPut EXCEPT !.username = Some(Zed), !.email = Some(ZedMail)]}

\* The handler up to its last await before the write: it answers at once
\* when it refuses, and otherwise its write is still to come
Begin(kind, u, s, b, r) ==
  /\ served + Cardinality(pending) < MaxRequests
  /\ IF r.write.op = "none"
     THEN /\ resp' = Response(kind, u, s, b, r.code, r.msg)
          /\ served' = served + 1
          /\ UNCHANGED pending
     ELSE /\ Cardinality(pending) < MaxPending
          /\ pending' = pending \cup {[kind |-> kind, user |-> u, id |-> s, body |-> b,
                                       write |-> r.write]}
          /\ UNCHANGED <<resp, served>>
  /\ UNCHANGED <<users, tasks, created>>

BeginPutUser(u, s, b) ==
  auth(u) /\ Begin("putUser", u, s, b, adminOnly(u, putUser(u, s, b)))

BeginUpdateSelf(u, b) ==
  auth(u) /\ Begin("updateSelf", u, toString(u), b, updateSelf(u, b))

BeginRegister(b) ==
  /\ NewUser \notin DOMAIN users
  /\ \A p \in pending : p.kind # "register"
  /\ Begin("register", Undefined, toString(NewUser), b, register(b))

\* The write of a request begun earlier, and its response
Commit(p) ==
  /\ p \in pending
  /\ pending' = pending \ {p}
  /\ users' = usersAfter(p.write)
  /\ resp' = Response(p.kind, p.user, p.id, p.body, written(p.write).code,
                      written(p.write).msg)
  /\ served' = served + 1
  /\ UNCHANGED <<tasks, created>>

NextUserRace ==
  \/ \E u \in {Admin, Ann}, s \in {toString(Ann), toString(Bob)}, b \in RaceBodies :
        BeginPutUser(u, s, b)
  \/ \E u \in {Ann, Bob}, b \in RaceBodies : BeginUpdateSelf(u, b)
  \/ \E b \in RegisterBodies : BeginRegister(b)
  \/ \E p \in pending : Commit(p)

SpecUserRace == Init /\ [][NextUserRace]_vars

\* C5: usernames and emails stay pairwise distinct, and a register,
\* update-self or admin user-update request that is answered while a
\* different user holds its username or email is answered 400 'already
\* exists' and changes no user.
C5_Step ==
  /\ \A x, y \in DOMAIN users' :
        x # y => /\ users'[x].username # users'[y].username
                 /\ users'[x].email # users'[y].email
  /\ (/\ served' = served + 1
      /\ resp'.kind \in {"putUser", "updateSelf", "register"}
      /\ resp'.code # 403
      /\ existingUser(resp'.body.username, resp'.body.email, castObjectId(resp'.id)) # {})
     => /\ resp'.code = 400
        /\ resp'.msg \in {"Username or email already exists", "already exists"}
        /\ users' = users

C5_UniqueAndRejected == [][C5_Step]_vars

(***************************************************************************)
(* Task creation over the fields that have defaults: POST /api/tasks with  *)
(* and without priority, isPublic and status in the body.                  *)
(***************************************************************************)
DefaultsBodies ==
  {[CreateBody(<<"t">>, Undefined, pub) EXCEPT !.priority = p, !.status = st] :
     pub \in {Undef, "true", "false", "maybe"},
     p \in {Undef, "high", "bogus"},
     st \in {Undef, "completed", "bogus"}}

NextDefaults == \E u \in {Ann, Bob}, b \in DefaultsBodies : CreateTask(u, b)

SpecDefaults == Init /\ [][NextDefaults]_vars

\* C11: a task that a create request stores starts with status `pending`
\* whatever the body carries; its priority is the body's, or `medium` when
\* the body has none; it is public iff the body says so, and private when
\* the body has no isPublic.
C11_Step ==
  \A t \in DOMAIN tasks' \ DOMAIN tasks :
     LET b == resp'.body IN
     /\ resp'.kind = "createTask" /\ resp'.code = 201
     /\ tasks'[t].status = "pending"
     /\ tasks'[t].completedAt = Undef
     /\ tasks'[t].priority = IF b.priority = Undef THEN "medium" ELSE b.priority
     /\ tasks'[t].isPublic = (b.isPublic = "true")

C11_CreateDefaults == [][C11_Step]_vars

C11_Witness ==
  /\ resp.kind = "createTask" /\ resp.code = 201
  /\ resp.body.status = "completed" /\ resp.body.priority = Undef
  /\ resp.body.isPublic = Undef
  /\ \E t \in DOMAIN tasks :
        tasks[t].status = "pending" /\ tasks[t].priority = "medium" /\ ~tasks[t].isPublic

(***************************************************************************)
(* Login.  POST /api/auth/login (routes/auth.js): the user with the given  *)
(* email is looked up and the password compared with the stored hash.      *)
(***************************************************************************)
\* the password a user registered with (stored hashed)
passwordOf(x) == <<"p", x[HexLen]>>

comparePassword(x, pw) == passwordOf(x) = pw

\* login answering an unknown email with its own status and message
loginTellsUnknownEmail(b) ==
  LET found == {x \in DOMAIN users : users[x].email = normalizeEmail(b.email)} IN
  IF found = {} THEN Answer(404, "User not found")
  ELSE IF \E x \in found : comparePassword(x, b.password)
  THEN Answer(200, "Login successful")
  ELSE Answer(401, "Invalid credentials")

login(b) ==
  LET found == {x \in DOMAIN users : users[x].email = normalizeEmail(b.email)} IN
  IF found = {} THEN Answer(401, "Invalid credentials")
  ELSE IF \E x \in found : comparePassword(x, b.password)
  THEN Answer(200, "Login successful")
  ELSE Answer(401, "Invalid credentials")

LoginBodies ==
  {[email |-> e, password |-> pw] :
     e \in {<<"a", "@", "x">>, <<"A", "@", "X">>, <<"b", "@", "x">>, <<"q", "@", "x">>},
     pw \in {passwordOf(Ann), passwordOf(Bob), <<"w", "w">>}}

Login(b) == b \in LoginBodies /\ Serve("login", Undefined, Undefined, b, login(b))

\* logins, between admin requests that remove a user or change an email
NextLogin ==
  \/ \E b \in LoginBodies : Login(b)
  \/ \E s \in {toString(Ann), toString(Bob)} : DeleteUser(Admin, s)
  \/ PutUser(Admin, toString(Bob), [EmptyUserPut EXCEPT !.email = Some(<<"q", "@", "x">>)])

SpecLogin == Init /\ [][NextLogin]_vars

\* C12: a login with a registered email and a wrong password and a login
\* with an unregistered email get the same response, 401 'Invalid
\* credentials'.
C12_Registered(e) == \E x \in DOMAIN users : users[x].email = ToLower(e)

C12_LoginFailuresAlike ==
  resp.kind = "login" =>
     LET b == resp.body
         wrongPassword == /\ C12_Registered(b.email)
                          /\ \A x \in DOMAIN users :
                                users[x].email = ToLower(b.email) => passwordOf(x) # b.password
     IN (wrongPassword \/ ~C12_Registered(b.email))
           => (resp.code = 401 /\ resp.msg = "Invalid credentials")

\* both kinds of failure happen: an email whose user was deleted, and later
\* a registered one with a wrong password
C12_Witness ==
  /\ resp.kind = "login" /\ resp.code = 401
  /\ C12_Registered(resp.body.email) /\ resp.body.password = <<"w", "w">>
  /\ Ann \notin DOMAIN users

(***************************************************************************)
(* Paging on its own: GET /api/tasks and GET /api/tasks/public over page   *)
(* and limit values, with no other filter.                                 *)
(***************************************************************************)
PageQueries ==
  {[page |-> pg, limit |-> lm, status |-> None, priority |-> None, search |-> <<>>] :
     pg \in {<<>>, <<"0">>, <<"2">>, <<"-", "1">>},
     lm \in {<<>>, <<"1">>, <<"-", "1">>}}

ListPublicTasks(q) ==
  /\ served < MaxRequests
  /\ served' = served + 1
  /\ LET r == listPublicTasks(q) IN
     resp' = Response("listPublic", Undefined, Undefined, [query |-> q, result |-> r],
                      r.code, r.msg)
  /\ UNCHANGED <<users, tasks, created, pending>>

NextPage ==
  \/ \E u \in {Ann, Bob}, q \in PageQueries : ListTasks(u, q)
  \/ \E q \in PageQueries : ListPublicTasks(q)

SpecPage == InitList /\ [][NextPage]_vars

\* C13: a listing answers, for every page and limit value, with at most
\* `limit` items, those at positions (page-1)*limit+1 .. page*limit of the
\* matching set, and with pagination {page, limit, total, pages} where total
\* is the size of the matching set and pages = ceil(total/limit) >= 0; page
\* is 1 and limit 10 when the query has none.
C13_Matching ==
  IF resp.kind = "listPublic" THEN {t \in DOMAIN tasks : tasks[t].isPublic}
  ELSE {t \in DOMAIN tasks : \/ tasks[t].createdBy = resp.user
                             \/ tasks[t].assignedTo = resp.user
                             \/ tasks[t].isPublic}

C13_Pagination ==
  resp.kind \in {"listTasks", "listPublic"} =>
     LET q == resp.body.query
         r == resp.body.result
         all == newestFirst(C13_Matching)
         last == IF r.page * r.limit < Len(all) THEN r.page * r.limit ELSE Len(all)
     IN /\ resp.code = 200
        /\ q.page = <<>> => r.page = 1
        /\ q.limit = <<>> => r.limit = 10
        /\ Len(r.tasks) <= r.limit
        /\ r.total = Len(all)
        /\ r.pages >= 0
        /\ r.pages * r.limit >= r.total /\ (r.pages - 1) * r.limit < r.total
        /\ r.tasks = SubSeq(all, (r.page - 1) * r.limit + 1, last)

(***************************************************************************)
(* Concurrent task writes.  PATCH /api/tasks/:id/status awaits findById,   *)
(* checks the requester against the document it got, and awaits save();    *)
(* full updates and deletes of the creator run in between.                 *)
(***************************************************************************)
BeginPatchTaskStatus(u, s, b) ==
  auth(u) /\ Begin("patchStatus", u, s, b, patchTaskStatus(u, s, b))

\* task.save() of a request begun earlier, and its response
CommitTask(p) ==
  /\ p \in pending
  /\ p.kind = "patchStatus"
  /\ pending' = pending \ {p}
  /\ tasks' = tasksAfter(p.write)
  /\ resp' = Response(p.kind, p.user, p.id, p.body, written(p.write).code,
                      written(p.write).msg)
  /\ served' = served + 1
  /\ UNCHANGED <<users, created>>

ReassignBodies == {[EmptyPut EXCEPT !.assignedTo = Some(x)] : x \in {Ann, Bob}}

NextPatchRace ==
  \/ \E b \in CreateBodies : CreateTask(Ann, b)
  \/ \E u \in {Ann, Bob, Admin}, t \in TaskOids, b \in PatchBodies :
        BeginPatchTaskStatus(u, toString(t), b)
  \/ \E p \in pending : CommitTask(p)
  \/ \E t \in TaskOids, b \in ReassignBodies : PutTask(Ann, toString(t), b)
  \/ \E t \in TaskOids : DeleteTask(Ann, toString(t))

SpecPatchRace == Init /\ [][NextPatchRace]_vars

\* C14: under any interleaving, a status change that PATCH .../status
\* writes is written for a user who is the task's creator or assignee when
\* it is written, and a status update never brings back or writes to a task
\* deleted in between.
C14_Step ==
  /\ \A t \in DOMAIN tasks :
        (resp'.kind = "patchStatus" /\ (t \notin DOMAIN tasks' \/ tasks'[t] # tasks[t]))
           => resp'.user \in {tasks[t].createdBy, tasks[t].assignedTo}
  /\ \A t \in DOMAIN tasks' \ DOMAIN tasks : resp'.kind = "createTask"

C14_WriteByCreatorOrAssignee == [][C14_Step]_vars

\* C15: the creator of every stored task is a stored user, so GET
\* /api/tasks/:id on an existing task is answered 200 or 403, never 500.
C15_CreatorExists ==
  /\ \A t \in DOMAIN tasks : tasks[t].createdBy \in DOMAIN users
  /\ (resp.kind = "getTask" /\ castObjectId(resp.id) \in DOMAIN tasks)
        => resp.code \in {200, 403}

=============================================================================
